---- MODULE Spec2Model ----
(***************************************************************************)
(* A model of localgpt-llama.rn: the model service                         *)
(* (src/services/ModelService.ts: download, URL validation, catalog), the  *)
(* chat session hook (hooks/useChat) and the engine hook (hooks/useModel). *)
(***************************************************************************)
EXTENDS Integers, Sequences, FiniteSets, TLC

(***************************************************************************)
(* Part 1: ModelService.ts, downloadModel                                  *)
(***************************************************************************)

\* The size threshold 1_000_000 of downloadModel and checkDownloadedModels.
MinModelSize == 1000000

\* The only status code downloadModel accepts.
HttpOk == 200

\* Status codes the remote host may answer with.
StatusCodes == {200, 206, 404}

\* File sizes around the threshold.
FileSizes == {0, 1, MinModelSize - 1, MinModelSize, MinModelSize + 1}

\* The MD5 digests file contents can really have.
Digests == {"d1", "d2"}

\* model.expectedMD5 when the descriptor has none (undefined is falsy).
NoMD5 == ""

\* What calculateMD5 returns for every file.
MockHash == "mock-md5-hash"

\* The values of model.expectedMD5 a caller may pass.
ExpectedMD5s == {NoMD5, MockHash} \cup Digests

\* No file at MODELS_DIR/<filename>.
NoFile == [exists |-> FALSE, size |-> 0, digest |-> "none"]

\* A file at MODELS_DIR/<filename> of a given size and content digest.
FileOf(size, digest) == [exists |-> TRUE, size |-> size, digest |-> digest]

\* Every state of the target path.
FileStates == {NoFile} \cup {FileOf(s, d) : s \in FileSizes, d \in Digests}

\* calculateMD5: a placeholder that never reads the file.
CalculateMD5(file) == MockHash

\* No downloadModel call is running.
DlIdle == [pc |-> "idle", expectedMD5 |-> NoMD5, error |-> "none"]



(***************************************************************************)
(* Part 2: hooks/useChat, the chat session store and the turn orchestrator *)
(*                                                                         *)
(* React state is modelled as committed state. A handler called by the     *)
(* user runs with the values of the latest render; an async handler keeps  *)
(* the values it captured across its awaits. State setters called in one   *)
(* synchronous stretch take effect together, the last call on a state      *)
(* winning. AsyncStorage serves its calls in the order issued, so a write  *)
(* takes effect when setItem is called and a read returns the blob as of   *)
(* the getItem call; writes are taken to succeed.                          *)
(* Text is a sequence of one-character strings. The measurement fields of  *)
(* a message (timestamp, responseTime, tokensPerSecond, tokenCount) and a  *)
(* session's createdAt are written and displayed but read by no handler:   *)
(* messages carry role and content, sessions id, updatedAt, messages and   *)
(* title.                                                                  *)
(***************************************************************************)

\* Sessions generateId may ever create.
MaxIds == 3

\* The largest value of the clock Date.now() reads.
MaxTime == 1

\* handleSend calls that may be pending at the same time (SpecRace).
MaxInFlight == 2

\* handleSend calls that may be pending at the same time under SpecChat.
MaxPending == 1

\* Message lists are not grown beyond this length.
MaxMessages == 3

\* Times the app may be restarted.
MaxRestarts == 1

\* The initial value of activeSessionId, useState<string>('').
NoSession == 0

\* userMessage.slice(0, 50)
TitleLength == 50

\* String.prototype.trim, from the left.
RECURSIVE TrimStart(_)
TrimStart(s) ==
    IF s # <<>> /\ Head(s) = " " THEN TrimStart(Tail(s)) ELSE s

\* String.prototype.trim, from the right.
RECURSIVE TrimEnd(_)
TrimEnd(s) ==
    IF s # <<>> /\ s[Len(s)] = " " THEN TrimEnd(SubSeq(s, 1, Len(s) - 1)) ELSE s

\* String.prototype.trim
Trim(s) == TrimEnd(TrimStart(s))

\* String.prototype.slice(0, n)
Slice(s, n) == SubSeq(s, 1, IF Len(s) < n THEN Len(s) ELSE n)

\* What the user may type into the input box.
Inputs == {<<" ">>, <<"a", " ">>}

\* What model.completion may generate.
Responses == {<<"r">>, <<" ">>}

\* err.message of a failed completion.
EngineErrors == {<<"e">>}

\* A ChatMessage.
Message(role, content) == [role |-> role, content |-> content]

\* The message every new session is seeded with.
SystemMessage == Message("system", <<"You are a helpful, accurate and concise assistant.">>)

\* The placeholder initializeModel shows while no session is active.
LoadingMessage == Message("system", <<"Loading model...">>)

\* The message initializeModel shows when loadModel fails.
ModelErrorMessage == Message("system", <<"Failed to load model">>)

\* The assistant message for an empty generation.
NoResponseMessage == Message("assistant", <<"I couldn't generate a response. Please try again.">>)

\* The assistant message for a failed completion.
ErrorMessage(e) ==
    Message("assistant",
            <<"Error: ">> \o (IF e = <<>> THEN <<"Failed to generate response">> ELSE e))

\* An optional field that is not set.
Undefined == <<"undefined">>

\* A ChatSession.
Session(id, updatedAt, msgs, title) ==
    [id |-> id, updatedAt |-> updatedAt, messages |-> msgs, title |-> title]

\* Array.prototype.findIndex(s => s.id === id), 0 when there is none.
FindIndex(sessions, id) ==
    IF \E i \in DOMAIN sessions : sessions[i].id = id
    THEN CHOOSE i \in DOMAIN sessions :
            /\ sessions[i].id = id
            /\ \A j \in DOMAIN sessions : sessions[j].id = id => i <= j
    ELSE 0

\* Whether some session of the list has the id.
HasSession(sessions, id) == FindIndex(sessions, id) # 0

\* Array.prototype.filter(session => session.id !== id)
RECURSIVE FilterOut(_, _)
FilterOut(sessions, id) ==
    IF sessions = <<>> THEN <<>>
    ELSE IF Head(sessions).id = id THEN FilterOut(Tail(sessions), id)
    ELSE <<Head(sessions)>> \o FilterOut(Tail(sessions), id)

\* One step of a stable insertion sort by updatedAt, descending.
RECURSIVE InsertByUpdatedAt(_, _)
InsertByUpdatedAt(sorted, s) ==
    IF sorted = <<>> THEN <<s>>
    ELSE IF Head(sorted).updatedAt >= s.updatedAt
    THEN <<Head(sorted)>> \o InsertByUpdatedAt(Tail(sorted), s)
    ELSE <<s>> \o sorted

\* sessions.sort((a, b) => b.updatedAt - a.updatedAt), a stable sort.
RECURSIVE SortByUpdatedAt(_)
SortByUpdatedAt(sessions) ==
    IF sessions = <<>> THEN <<>>
    ELSE InsertByUpdatedAt(SortByUpdatedAt(SubSeq(sessions, 1, Len(sessions) - 1)),
                           sessions[Len(sessions)])

\* JSON.stringify of one session: a property that is undefined is left out.
StringifySession(s) ==
    IF s.title = Undefined
    THEN [id |-> s.id, updatedAt |-> s.updatedAt, messages |-> s.messages]
    ELSE s

\* JSON.stringify(sessions)
Stringify(sessions) == [i \in DOMAIN sessions |-> StringifySession(sessions[i])]

\* JSON.parse of one session: a property left out reads as undefined.
ParseSession(o) ==
    Session(o.id, o.updatedAt, o.messages,
            IF "title" \in DOMAIN o THEN o.title ELSE Undefined)

\* JSON.parse(sessionsData) as ChatSession[]
Parse(data) == [i \in DOMAIN data |-> ParseSession(data[i])]

\* AsyncStorage holds nothing under CHAT_SESSIONS_KEY.
NoBlob == [kind |-> "none", data |-> <<>>]

\* AsyncStorage holds a string that JSON.parse rejects.
CorruptBlob == [kind |-> "corrupt", data |-> <<>>]

\* AsyncStorage.getItem rejects.
ReadError == [kind |-> "error", data |-> <<>>]

\* AsyncStorage.setItem(CHAT_SESSIONS_KEY, JSON.stringify(sessions))
SetItem(sessions) == [kind |-> "json", data |-> Stringify(sessions)]

\* No handleSend call in this slot.
NoSend ==
    [pc |-> "idle", messages |-> <<>>, chatSessions |-> <<>>,
     activeSessionId |-> NoSession, userMessage |-> <<>>, isNewChat |-> FALSE]

(***************************************************************************)
(* Part 3: ModelService.ts, validateHuggingFaceUrl                         *)
(*                                                                         *)
(* A URL is a sequence of pieces: the separators "/" and "?", the host     *)
(* name and file extensions. The scheme is left out.                       *)
(***************************************************************************)

\* URLs are made of at most this many pieces.
MaxUrlLen == 6

\* 'huggingface.co'
HuggingFaceHost == "huggingface.co"

\* The pieces of a URL.
UrlPieces == {"/", "?", HuggingFaceHost, ".gguf", ".exe"}

\* The URLs a caller may pass.
Urls == UNION {[1..n -> UrlPieces] : n \in 1..MaxUrlLen}

\* supportedFormats
SupportedFormats == {".gguf", ".bin", ".safetensors", ".pt", ".pth", ".ggml"}

\* String.prototype.includes
Includes(s, piece) == \E i \in DOMAIN s : s[i] = piece

\* s.split(sep).pop(): what follows the last separator.
RECURSIVE SplitPop(_, _)
SplitPop(s, sep) ==
    IF s = <<>> \/ s[Len(s)] = sep THEN <<>>
    ELSE SplitPop(SubSeq(s, 1, Len(s) - 1), sep) \o <<s[Len(s)]>>

\* s.split(sep)[0]: what precedes the first separator.
RECURSIVE SplitFirst(_, _)
SplitFirst(s, sep) ==
    IF s = <<>> \/ Head(s) = sep THEN <<>>
    ELSE <<Head(s)>> \o SplitFirst(Tail(s), sep)

\* url.split('/').pop()?.split('?')[0] || ''
FilenameOfUrl(url) == SplitFirst(SplitPop(url, "/"), "?")

\* String.prototype.endsWith
EndsWith(s, piece) == s # <<>> /\ s[Len(s)] = piece

\* supportedFormats.some(ext => filename.endsWith(ext))
IsSupported(filename) == \E ext \in SupportedFormats : EndsWith(filename, ext)

\* A HuggingFaceModelInfo: the fields the callers read.
ModelInfoResult(isValid, filename, size, error) ==
    [isValid |-> isValid, filename |-> filename, size |-> size, error |-> error]

\* The result for a rejected URL.
Invalid(error) == ModelInfoResult(FALSE, <<>>, 0, error)

\* What validateHuggingFaceUrl returns before any request, "" when it goes on
\* to the HEAD request.
ValidateLocally(url) ==
    IF ~Includes(url, HuggingFaceHost) THEN "Not a Hugging Face URL"
    ELSE IF FilenameOfUrl(url) = <<>> THEN "Could not extract filename from URL"
    ELSE IF ~IsSupported(FilenameOfUrl(url)) THEN "Unsupported file format"
    ELSE ""

\* The content-length values a HEAD response may carry (0 when it has none).
ContentLengths == {0, 5}

\* How the HEAD request may end: response.ok, a failure status, a network error.
HeadOutcomes ==
    {[kind |-> "ok", size |-> n] : n \in ContentLengths}
        \cup {[kind |-> "status", size |-> 0], [kind |-> "throws", size |-> 0]}

\* What validateHuggingFaceUrl returns once the HEAD request has ended.
ValidateAfterHead(url, head) ==
    IF head.kind = "throws" THEN Invalid("Error validating URL")
    ELSE IF head.kind = "status" THEN Invalid("Failed to fetch file info")
    ELSE ModelInfoResult(TRUE, FilenameOfUrl(url), head.size, "")

\* No validateHuggingFaceUrl call is running.
ValIdle == [pc |-> "idle", url |-> <<>>, requested |-> FALSE, headOk |-> FALSE,
            result |-> Invalid("")]

(***************************************************************************)
(* Part 4: ModelService.ts, the catalog                                    *)
(*                                                                         *)
(* A ModelInfo object is a record of the fields the service reads: id,     *)
(* filename, isDownloaded, isCustom. The arrays AVAILABLE_MODELS and       *)
(* CUSTOM_MODELS hold the objects themselves, so a flag that               *)
(* checkDownloadedModels sets on an element of its copied array is set in  *)
(* the catalog. Each service call is taken as one step.                    *)
(***************************************************************************)

\* The id of the built-in model.
BuiltInId == "llama-3-1b"

\* The ids a caller may give a model.
ModelIds == {BuiltInId, "custom-1"}

\* The file names models may have.
Filenames == {"a.gguf", "b.gguf"}

\* A ModelInfo.
ModelInfo(id, filename, isDownloaded, isCustom) ==
    [id |-> id, filename |-> filename, isDownloaded |-> isDownloaded, isCustom |-> isCustom]

\* AVAILABLE_MODELS as the module is loaded.
AvailableModels == <<ModelInfo(BuiltInId, "a.gguf", FALSE, FALSE)>>

\* The models a caller may pass to addCustomModel (its parameter is any
\* ModelInfo; the add screen passes isDownloaded: false, isCustom: true).
NewModels == {ModelInfo(id, f, FALSE, TRUE) : id \in ModelIds, f \in Filenames}

\* Every value a ModelInfo object of the catalog may have.
AllModels ==
    {ModelInfo(id, f, d, c) : id \in ModelIds, f \in Filenames, d \in BOOLEAN, c \in BOOLEAN}

\* The files a path of MODELS_DIR may hold.
CatalogFiles == {NoFile, FileOf(MinModelSize, "d1"), FileOf(MinModelSize + 1, "d1")}

\* Array.prototype.findIndex(m => m.id === id), 0 when there is none.
FindModel(models, id) ==
    IF \E i \in DOMAIN models : models[i].id = id
    THEN CHOOSE i \in DOMAIN models :
            /\ models[i].id = id
            /\ \A j \in DOMAIN models : models[j].id = id => i <= j
    ELSE 0

\* Array.prototype.splice(i, 1)
Splice(models, i) == SubSeq(models, 1, i - 1) \o SubSeq(models, i + 1, Len(models))

\* The loop of checkDownloadedModels over one array: the flag is set where a
\* file above the threshold is found, and left as it is elsewhere.
Checked(models, fs) ==
    [i \in DOMAIN models |->
        IF fs[models[i].filename].exists /\ fs[models[i].filename].size > MinModelSize
        THEN [models[i] EXCEPT !.isDownloaded = TRUE]
        ELSE models[i]]

\* CUSTOM_MODELS after addCustomModel(m).
Upserted(models, m) ==
    IF FindModel(models, m.id) > 0
    THEN [models EXCEPT ![FindModel(models, m.id)] = m]
    ELSE Append(models, m)

\* No catalog operation yet.
NoOp == [op |-> "none", id |-> "", found |-> FALSE, listing |-> <<>>]

(***************************************************************************)
(* Part 5: hooks/useModel, the engine handle                               *)
(***************************************************************************)

\* Handles initLlama may ever create.
MaxHandles == 5

\* loadModel calls that may be pending at the same time.
MaxLoads == 3

\* useState<LlamaContext | null>(null)
NoHandle == 0

(***************************************************************************)
(* Part 6: ModelService.ts, the progress callback of downloadModel         *)
(***************************************************************************)

\* Progress callbacks RNFS.downloadFile makes during one transfer.
MaxEvents == 4

\* Milliseconds of Date.now() between two progress callbacks (or between the
\* start and the first).
TimeSteps == {0, 250, 500, 501}

\* Bytes written between two progress callbacks.
ByteSteps == {0, 1, 7}

\* The throttle with the bound included.
ThrottledAtLeast(elapsedMs) == elapsedMs >= 500

\* timeElapsed > 0.5, where timeElapsed = (now - lastUpdateTime) / 1000
Throttled(elapsedMs) == elapsedMs > 500

\* (res.bytesWritten - lastBytes) / timeElapsed, a fraction: bytes per ms / 1000.
BytesPerSecond(bytes, elapsedMs) == [bytes |-> bytes * 1000, ms |-> elapsedMs]

\* No transfer yet: the locals of downloadModel and what onProgress was called with.
NoProgress ==
    [pc |-> "idle", onProgress |-> FALSE, clock |-> 0, started |-> 0,
     lastUpdateTime |-> 0, lastBytes |-> 0, bytesWritten |-> 0, events |-> 0,
     emitted |-> <<>>]

(***************************************************************************)
(* Part 7: hooks/useModel, the token-count cache of tokenizeText           *)
(***************************************************************************)

\* if (tokenCache.current.size > 1000)
TokenCacheLimit == 1000

\* Texts never tokenized before that one run tokenizes.
MaxFresh == 4

\* tokenizeText calls that may be pending at the same time.
MaxTokenizing == 2

\* tokenIds.tokens.length for a text (texts are numbered).
TokenCount(text) == (text % 3) + 1

\* An entry of the Map, which keeps its entries in insertion order.
Entry(text, count) == [text |-> text, count |-> count]

\* The place of a text in the Map, 0 when it has no entry: Map.prototype.has.
CacheIndex(cache, text) ==
    IF \E i \in DOMAIN cache : cache[i].text = text
    THEN CHOOSE i \in DOMAIN cache : cache[i].text = text
    ELSE 0

\* Map.prototype.set: a new key goes to the end, a known key keeps its place.
CacheSet(cache, text, count) ==
    IF CacheIndex(cache, text) > 0
    THEN [cache EXCEPT ![CacheIndex(cache, text)].count = count]
    ELSE Append(cache, Entry(text, count))

\* The cache never trimmed.
CacheTrimNever(cache) == cache

\* The size test after set: the first key of the iteration order is deleted.
CacheTrim(cache) ==
    IF Len(cache) > TokenCacheLimit THEN Tail(cache) ELSE cache

\* The cache after TokenCacheLimit - 2 different texts were tokenized.
FilledCache == [i \in 1..(TokenCacheLimit - 2) |-> Entry(i, TokenCount(i))]

\* Whether the run may still tokenize the text numbered n for the first time
\* (runs start with an empty cache or with FilledCache).
FreshLeft(n) ==
    \/ n <= MaxFresh
    \/ TokenCacheLimit - 2 < n /\ n <= TokenCacheLimit - 2 + MaxFresh

\* No tokenizeText call in this slot.
NoTokenize ==
    [pc |-> "idle", text |-> 0, loaded |-> FALSE, hit |-> FALSE, cached |-> 0,
     called |-> FALSE, result |-> 0]

VARIABLES
    modelFile,        \* the file at fullPath: [exists, size, digest]
    dl,               \* the running downloadModel call: [pc, expectedMD5, error]
    input,            \* useState input
    messages,         \* useState messages
    isThinking,       \* useState isThinking
    chatSessions,     \* useState chatSessions
    activeSessionId,  \* useState activeSessionId
    model,            \* useModel's model: TRUE once loaded
    stored,           \* the blob under CHAT_SESSIONS_KEY
    loadCall,         \* loadChatSessions: [pc, data]
    initPc,           \* initializeModel: "loading", "done", "failed"
    sends,            \* the pending handleSend calls and what each captured
    now,              \* Date.now()
    nextId,           \* the next id generateId returns
    restarts,         \* how often the app was restarted
    deleted,          \* history: the active sessions deleteSession removed while others remained
    sw,               \* history: how far a run of switchChatSession(A), (B), (A) has come
    call,             \* history: the last switchChatSession or deleteSession call: [op, id]
    val,              \* the validateHuggingFaceUrl call: [pc, url, requested, result]
    availableModels,  \* AVAILABLE_MODELS, whose objects checkDownloadedModels updates
    customModels,     \* CUSTOM_MODELS
    files,            \* the files in MODELS_DIR, by filename
    lib,              \* history: the last catalog operation and what it returned
    handle,           \* useModel's model state: the handle it holds, or NoHandle
    live,             \* the engine handles created and not released
    loads,            \* the pending loadModel calls and the model state each captured
    nextHandle,       \* the next handle initLlama creates
    prog,             \* the transfer of downloadModel as its progress callback sees it
    tokenCache,       \* tokenCache.current: the Map's entries in insertion order
    tok,              \* the tokenizeText calls: [pc, text, loaded, hit, cached, called, result]
    nextText          \* the next text that was never tokenized

dlVars == <<modelFile, dl>>
reactVars == <<input, messages, isThinking, chatSessions, activeSessionId, model>>
chatVars == <<reactVars, stored, loadCall, initPc, sends, now, nextId, restarts, deleted, sw, call>>
valVars == <<val>>
catVars == <<availableModels, customModels, files, lib>>
engVars == <<handle, live, loads, nextHandle>>
progVars == <<prog>>
tokVars == <<tokenCache, tok, nextText>>
svcVars == <<valVars, catVars, engVars, progVars, tokVars>>
vars == <<dlVars, chatVars, svcVars>>

\* The services as the app starts: no call running, the catalog as written in
\* the module, MODELS_DIR empty, no engine handle.
ServicesInit ==
    /\ val = ValIdle
    /\ availableModels = AvailableModels
    /\ customModels = <<>>
    /\ files = [f \in Filenames |-> NoFile]
    /\ lib = NoOp
    /\ handle = NoHandle
    /\ live = {}
    /\ loads = 0
    /\ nextHandle = 1
    /\ prog = NoProgress
    /\ tokenCache = <<>>
    /\ tok = [i \in 1..MaxTokenizing |-> NoTokenize]
    /\ nextText = 1

\* No run of switches is under way.
NoSwitches == [stage |-> 0, a |-> NoSession, stored |-> <<>>, shown |-> <<>>]

\* No switchChatSession or deleteSession call was the last step.
NoCall == [op |-> "none", id |-> NoSession]

\* A step that is neither a deleteSession nor a switchChatSession.
Forget == sw' = NoSwitches /\ call' = NoCall /\ UNCHANGED deleted

\* The hook right after mounting: the state of the first render, with the mount
\* effect's loadChatSessions() awaiting getItem (which returns `read`) and
\* initializeModel() awaiting loadModel, after it has shown the loading
\* placeholder (no session is active in the first render).
Mounted(read) ==
    [input |-> <<>>,
     messages |-> <<LoadingMessage>>,
     isThinking |-> FALSE,
     chatSessions |-> <<>>,
     activeSessionId |-> NoSession,
     model |-> FALSE,
     loadCall |-> [pc |-> "reading", data |-> read],
     initPc |-> "loading",
     sends |-> [i \in 1..MaxInFlight |-> NoSend]]

\* A first start of the app over a given blob, getItem returning `read`.
ChatMounted(blob, read) ==
    /\ input = Mounted(read).input
    /\ messages = Mounted(read).messages
    /\ isThinking = Mounted(read).isThinking
    /\ chatSessions = Mounted(read).chatSessions
    /\ activeSessionId = Mounted(read).activeSessionId
    /\ model = Mounted(read).model
    /\ loadCall = Mounted(read).loadCall
    /\ initPc = Mounted(read).initPc
    /\ sends = Mounted(read).sends
    /\ stored = blob
    /\ now = 0
    /\ nextId = 1
    /\ restarts = 0
    /\ deleted = {}
    /\ sw = NoSwitches
    /\ call = NoCall

(***************************************************************************)
(* downloadModel                                                           *)
(***************************************************************************)


\* downloadModel up to RNFS.downloadFile: the existing-file fast path.
\* Returns the path, or unlinks a file whose hash differs, or goes on to download.
DownloadModel(md5) ==
    /\ dl.pc = "idle"
    /\ UNCHANGED <<chatVars, svcVars>>
    /\ IF modelFile.exists /\ modelFile.size > MinModelSize
       THEN IF md5 # NoMD5
            THEN IF CalculateMD5(modelFile) = md5
                 THEN /\ dl' = [pc |-> "returned", expectedMD5 |-> md5, error |-> "none"]
                      /\ UNCHANGED modelFile
                 ELSE /\ modelFile' = NoFile
                      /\ dl' = [pc |-> "transfer", expectedMD5 |-> md5, error |-> "none"]
            ELSE /\ dl' = [pc |-> "returned", expectedMD5 |-> md5, error |-> "none"]
                 /\ UNCHANGED modelFile
       ELSE /\ dl' = [pc |-> "transfer", expectedMD5 |-> md5, error |-> "none"]
            /\ UNCHANGED modelFile

\* What downloadModel does once download.promise has resolved with a status
\* code, the file at fullPath being `file` by then.
AfterTransfer(status, file, md5) ==
    IF status # HttpOk
    THEN [file |-> file, pc |-> "failed", error |-> "status"]
    ELSE IF file.size < MinModelSize
    THEN [file |-> NoFile, pc |-> "failed", error |-> "tooSmall"]
    ELSE IF md5 # NoMD5 /\ CalculateMD5(file) # md5
    THEN [file |-> NoFile, pc |-> "failed", error |-> "md5"]
    ELSE [file |-> file, pc |-> "returned", error |-> "none"]

\* The transfer ends with a status code. RNFS.downloadFile has written a body of
\* some size to fullPath, or (on a non-success status only) left the path alone.
TransferEnds(status, size, digest, written) ==
    /\ dl.pc = "transfer"
    /\ UNCHANGED <<chatVars, svcVars>>
    /\ written \/ status # HttpOk
    /\ LET file == IF written THEN FileOf(size, digest) ELSE modelFile
           out  == AfterTransfer(status, file, dl.expectedMD5)
       IN /\ modelFile' = out.file
          /\ dl' = [dl EXCEPT !.pc = out.pc, !.error = out.error]

\* download.promise rejects (connection lost): the exception leaves downloadModel,
\* with whatever was written so far still at fullPath.
TransferRejects(size, digest, written) ==
    /\ dl.pc = "transfer"
    /\ UNCHANGED <<chatVars, svcVars>>
    /\ modelFile' = IF written THEN FileOf(size, digest) ELSE modelFile
    /\ dl' = [dl EXCEPT !.pc = "failed", !.error = "rejected"]

\* The caller has the result; the next call may start.
DownloadSettled ==
    /\ dl.pc \in {"returned", "failed"}
    /\ dl' = DlIdle
    /\ UNCHANGED <<modelFile, chatVars, svcVars>>

InitDownload ==
    /\ modelFile \in FileStates
    /\ dl = DlIdle
    /\ ChatMounted(NoBlob, NoBlob)
    /\ ServicesInit

NextDownload ==
    \/ \E md5 \in ExpectedMD5s : DownloadModel(md5)
    \/ \E st \in StatusCodes, s \in FileSizes, d \in Digests, w \in BOOLEAN :
          TransferEnds(st, s, d, w)
    \/ \E s \in FileSizes, d \in Digests, w \in BOOLEAN : TransferRejects(s, d, w)
    \/ DownloadSettled

SpecDownload == InitDownload /\ [][NextDownload]_vars

(***************************************************************************)
(* useChat: helpers                                                        *)
(***************************************************************************)

\* chatSessions.find(session => session.id === id); asked only when there is one.
FindSession(sessions, id) == sessions[FindIndex(sessions, id)]

\* The effect on [activeSessionId, chatSessions]: after a render in which either
\* changed, the displayed messages become those of the active session, if the
\* collection has it. `msgs` is what the handler itself set.
SyncMessages(active, sessions, msgs) ==
    IF active # NoSession /\ HasSession(sessions, active)
    THEN FindSession(sessions, active).messages
    ELSE msgs

\* messages.find(m => m.role === 'user')?.content.slice(0, 50) || 'New Chat'
TitleOf(msgs) ==
    LET users == SelectSeq(msgs, LAMBDA m : m.role = "user")
    IN IF users # <<>> /\ Slice(users[1].content, TitleLength) # <<>>
       THEN Slice(users[1].content, TitleLength)
       ELSE <<"New Chat">>

\* saveCurrentSession with the values its render captured: whether it saves, and
\* the collection it then sets and writes.
SaveCurrentSession(active, msgs, sessions, t) ==
    IF active = NoSession \/ Len(msgs) = 0
    THEN [saved |-> FALSE, sessions |-> sessions]
    ELSE LET i == FindIndex(sessions, active)
         IN IF i > 0
            THEN [saved |-> TRUE,
                  sessions |-> [sessions EXCEPT ![i].messages = msgs,
                                                ![i].updatedAt = t]]
            ELSE [saved |-> TRUE,
                  sessions |-> <<Session(active, t, msgs, TitleOf(msgs))>> \o sessions]

\* The blob after the writes a handler issued, in the order issued.
AfterWrites(blob, writes) ==
    IF writes = <<>> THEN blob ELSE SetItem(writes[Len(writes)])

\* The session createNewChat makes.
NewSessionUnseeded(id, t) == Session(id, t, <<>>, Undefined)

NewSession(id, t) == Session(id, t, <<SystemMessage>>, Undefined)

\* The collection createNewChat sets and saves, from the collection it captured.
NewSessions(id, t, sessions) == <<NewSession(id, t)>> \o sessions

CreateWritesCaptured(active, msgs, sessions, id, t) ==
    LET save == SaveCurrentSession(active, msgs, sessions, t)
    IN (IF active # NoSession /\ save.saved THEN <<save.sessions>> ELSE <<>>)
       \o <<sessions>>

\* The collections createNewChat writes, in order: that of saveCurrentSession()
\* when a session is active, then its own.
CreateWrites(active, msgs, sessions, id, t) ==
    LET save == SaveCurrentSession(active, msgs, sessions, t)
    IN (IF active # NoSession /\ save.saved THEN <<save.sessions>> ELSE <<>>)
       \o <<NewSessions(id, t, sessions)>>

\* createNewChat with the values its render captured. The collection that
\* saveCurrentSession() set is replaced by newSessions in the same render.
CreateNewChat(active, msgs, sessions) ==
    /\ nextId <= MaxIds
    /\ chatSessions' = NewSessions(nextId, now, sessions)
    /\ activeSessionId' = nextId
    /\ messages' = SyncMessages(nextId, NewSessions(nextId, now, sessions),
                                NewSession(nextId, now).messages)
    /\ stored' = AfterWrites(stored, CreateWrites(active, msgs, sessions, nextId, now))
    /\ nextId' = nextId + 1

\* The handleSend calls that are pending.
Pending == {i \in 1..MaxInFlight : sends[i].pc # "idle"}

\* The lowest free slot for a handleSend call.
FreeSlot == CHOOSE i \in 1..MaxInFlight :
                /\ sends[i].pc = "idle"
                /\ \A j \in 1..MaxInFlight : sends[j].pc = "idle" => i <= j

\* updatedMessages of a handleSend call.
UpdatedMessages(s) == s.messages \o <<Message("user", s.userMessage)>>

\* finalMessages of a handleSend call whose completion generated `text`.
FinalMessages(s, text) ==
    UpdatedMessages(s) \o
        <<IF Trim(text) # <<>> THEN Message("assistant", Trim(text)) ELSE NoResponseMessage>>

\* errorMessages of a handleSend call whose try block threw `e`.
ErrorMessages(s, e) == s.messages \o <<ErrorMessage(e)>>

\* chatSessions.map(...) of handleSend, over the collection the call captured.
UpdatedSessions(s, msgs, t, setTitle) ==
    [i \in DOMAIN s.chatSessions |->
        IF s.chatSessions[i].id = s.activeSessionId
        THEN [s.chatSessions[i] EXCEPT
                !.messages = msgs,
                !.updatedAt = t,
                !.title = IF setTitle /\ s.isNewChat
                          THEN Slice(s.userMessage, TitleLength)
                          ELSE @]
        ELSE s.chatSessions[i]]

(***************************************************************************)
(* useChat: handlers                                                       *)
(***************************************************************************)

\* The user edits the input box (setInput).
SetInput(text) ==
    /\ Forget
    /\ input' = text
    /\ UNCHANGED <<dlVars, svcVars, messages, isThinking, chatSessions, activeSessionId, model,
                   stored, loadCall, initPc, sends, now, nextId, restarts>>

\* The guard of handleSend: if (!input.trim() || isThinking || !model) return;
CanSendUntrimmed(text, thinking, loaded) == text # <<>> /\ ~thinking /\ loaded

CanSend(text, thinking, loaded) == Trim(text) # <<>> /\ ~thinking /\ loaded

\* handleSend up to its first await (tokenizeText): the guard, then the values
\* the call keeps from its render. The model follows at most `limit` pending calls.
HandleSend(limit) ==
    /\ Forget
    /\ IF ~CanSend(input, isThinking, model)
       THEN UNCHANGED <<input, sends>>
       ELSE /\ Cardinality(Pending) < limit
            /\ Len(messages) < MaxMessages
            /\ input' = <<>>
            /\ sends' = [sends EXCEPT ![FreeSlot] =
                    [pc |-> "tokenizing",
                     messages |-> messages,
                     chatSessions |-> chatSessions,
                     activeSessionId |-> activeSessionId,
                     userMessage |-> Trim(input),
                     isNewChat |-> Len(messages) = 1 /\ messages[1].role = "system"]]
    /\ UNCHANGED <<dlVars, svcVars, messages, isThinking, chatSessions, activeSessionId, model,
                   stored, loadCall, initPc, now, nextId, restarts>>

\* tokenizeText(userMessage) returns: the user message is shown, the in-flight
\* flag is set and model.completion is called.
TokenizeReturns(i) ==
    /\ Forget
    /\ sends[i].pc = "tokenizing"
    /\ messages' = UpdatedMessages(sends[i])
    /\ isThinking' = TRUE
    /\ sends' = [sends EXCEPT ![i].pc = "completing"]
    /\ UNCHANGED <<dlVars, svcVars, input, chatSessions, activeSessionId, model,
                   stored, loadCall, initPc, now, nextId, restarts>>

\* model.completion resolves with `text` (and the response is tokenized): the
\* final messages are shown, the captured collection is updated, set and saved.
CompletionReturns(i, text) ==
    /\ Forget
    /\ sends[i].pc = "completing"
    /\ LET final == FinalMessages(sends[i], text)
           updated == UpdatedSessions(sends[i], final, now, TRUE)
       IN /\ chatSessions' = updated
          /\ messages' = SyncMessages(activeSessionId, updated, final)
          /\ stored' = AfterWrites(stored, <<updated>>)
    /\ sends' = [sends EXCEPT ![i].pc = "saving"]
    /\ UNCHANGED <<dlVars, svcVars, input, isThinking, activeSessionId, model,
                   loadCall, initPc, now, nextId, restarts>>

\* model.completion rejects with message `e`: the catch block.
CompletionFails(i, e) ==
    /\ Forget
    /\ sends[i].pc = "completing"
    /\ LET failed == ErrorMessages(sends[i], e)
           updated == UpdatedSessions(sends[i], failed, now, FALSE)
       IN /\ chatSessions' = updated
          /\ messages' = SyncMessages(activeSessionId, updated, failed)
          /\ stored' = AfterWrites(stored, <<updated>>)
    /\ sends' = [sends EXCEPT ![i].pc = "saving"]
    /\ UNCHANGED <<dlVars, svcVars, input, isThinking, activeSessionId, model,
                   loadCall, initPc, now, nextId, restarts>>

\* saveAllSessions has resolved in a handleSend without a finally block.
SaveReturnsFlagKept(i) ==
    /\ Forget
    /\ sends[i].pc = "saving"
    /\ sends' = [sends EXCEPT ![i] = NoSend]
    /\ UNCHANGED <<dlVars, svcVars, input, messages, isThinking, chatSessions, activeSessionId,
                   model, stored, loadCall, initPc, now, nextId, restarts>>

\* saveAllSessions has resolved: the finally block clears the in-flight flag.
SaveReturns(i) ==
    /\ Forget
    /\ sends[i].pc = "saving"
    /\ isThinking' = FALSE
    /\ sends' = [sends EXCEPT ![i] = NoSend]
    /\ UNCHANGED <<dlVars, svcVars, input, messages, chatSessions, activeSessionId, model,
                   stored, loadCall, initPc, now, nextId, restarts>>

\* The user asks for a new chat (header or sidebar button, resetChat).
UserCreateNewChat ==
    /\ Forget
    /\ CreateNewChat(activeSessionId, messages, chatSessions)
    /\ UNCHANGED <<dlVars, svcVars, input, isThinking, model, loadCall, initPc, sends, now, restarts>>

\* History: the run of switches after switchChatSession(sessionId). A run starts
\* with a switch to the active session A while another session is in the
\* collection, goes on with a switch to another session B, and ends with a
\* switch back to A; it keeps what A's entry and the display held at its start.
Switched(sessionId) ==
    IF sw.stage = 1 /\ sessionId # sw.a /\ HasSession(chatSessions, sessionId)
    THEN [sw EXCEPT !.stage = 2]
    ELSE IF sw.stage = 2 /\ sessionId = sw.a
    THEN [sw EXCEPT !.stage = 3]
    ELSE IF /\ sessionId = activeSessionId
            /\ HasSession(chatSessions, sessionId)
            /\ \E i \in DOMAIN chatSessions : chatSessions[i].id # sessionId
    THEN [stage |-> 1, a |-> sessionId,
          stored |-> FindSession(chatSessions, sessionId).messages,
          shown |-> messages]
    ELSE NoSwitches

\* The session that is active after switchChatSession(sessionId).
SwitchedToUnchecked(sessions, sessionId, active) == sessionId

SwitchedTo(sessions, sessionId, active) ==
    IF HasSession(sessions, sessionId) THEN sessionId ELSE active

\* switchChatSession(sessionId); `track` says whether the history of calls and
\* of runs of switches is kept.
SwitchChatSession(sessionId, track) ==
    LET save == SaveCurrentSession(activeSessionId, messages, chatSessions, now)
        found == HasSession(chatSessions, sessionId)
        active == SwitchedTo(chatSessions, sessionId, activeSessionId)
        sessions == IF save.saved THEN save.sessions ELSE chatSessions
        shown == IF found THEN FindSession(chatSessions, sessionId).messages ELSE messages
    IN /\ activeSessionId' = active
       /\ chatSessions' = sessions
       /\ messages' = IF save.saved \/ active # activeSessionId
                      THEN SyncMessages(active, sessions, shown)
                      ELSE shown
       /\ stored' = AfterWrites(stored, IF save.saved THEN <<save.sessions>> ELSE <<>>)
       /\ sw' = IF track THEN Switched(sessionId) ELSE NoSwitches
       /\ call' = IF track THEN [op |-> "switchChatSession", id |-> sessionId] ELSE NoCall
       /\ UNCHANGED <<dlVars, svcVars, input, isThinking, model, loadCall, initPc, sends,
                      now, nextId, restarts, deleted>>

\* deleteSession(sessionId). Deleting the only session calls createNewChat, whose
\* writes follow that of the filtered collection. `track` says whether the
\* history of calls is kept.
DeleteSession(sessionId, track) ==
    LET updated == FilterOut(chatSessions, sessionId)
        active == IF sessionId = activeSessionId /\ updated # <<>>
                  THEN updated[1].id ELSE activeSessionId
        shown == IF sessionId = activeSessionId /\ updated # <<>>
                 THEN updated[1].messages ELSE messages
    IN /\ IF sessionId = activeSessionId /\ updated = <<>>
          THEN CreateNewChat(activeSessionId, messages, chatSessions)
          ELSE /\ chatSessions' = updated
               /\ activeSessionId' = active
               /\ messages' = SyncMessages(active, updated, shown)
               /\ stored' = AfterWrites(stored, <<updated>>)
               /\ UNCHANGED nextId
       /\ deleted' = IF sessionId = activeSessionId /\ updated # <<>>
                     THEN deleted \cup {sessionId} ELSE deleted
       /\ sw' = NoSwitches
       /\ call' = IF track THEN [op |-> "deleteSession", id |-> sessionId] ELSE NoCall
       /\ UNCHANGED <<dlVars, svcVars, input, isThinking, model, loadCall, initPc, sends,
                      now, restarts>>

\* The app goes to the background or becomes inactive: saveCurrentSession().
AppBackground ==
    LET save == SaveCurrentSession(activeSessionId, messages, chatSessions, now)
    IN /\ chatSessions' = save.sessions
       /\ messages' = IF save.saved
                      THEN SyncMessages(activeSessionId, save.sessions, messages)
                      ELSE messages
       /\ stored' = AfterWrites(stored, IF save.saved THEN <<save.sessions>> ELSE <<>>)
       /\ Forget
       /\ UNCHANGED <<dlVars, svcVars, input, isThinking, activeSessionId, model, loadCall,
                      initPc, sends, now, nextId, restarts>>

\* Whether loadChatSessions restores what getItem returned; otherwise (nothing
\* stored, an empty list, a failed read, a failed parse) it calls createNewChat.
Restorable(read) == read.kind = "json" /\ Len(Parse(read.data)) > 0

\* The collection loadChatSessions sets from what getItem returned: parsed, then
\* sorted in place by most recent update.
RestoredSessions(read) == SortByUpdatedAt(Parse(read.data))

\* getItem returns to loadChatSessions, which the mount effect called with the
\* values of the first render (no session, no messages, an empty collection).
LoadChatSessionsReturns ==
    /\ Forget
    /\ loadCall.pc = "reading"
    /\ IF Restorable(loadCall.data)
       THEN LET sessions == RestoredSessions(loadCall.data)
            IN /\ chatSessions' = sessions
               /\ activeSessionId' = sessions[1].id
               /\ messages' = SyncMessages(sessions[1].id, sessions, sessions[1].messages)
               /\ UNCHANGED <<stored, nextId>>
       ELSE CreateNewChat(Mounted(NoBlob).activeSessionId, <<>>,
                          Mounted(NoBlob).chatSessions)
    /\ loadCall' = [pc |-> IF Restorable(loadCall.data) THEN "restored" ELSE "created",
                    data |-> NoBlob]
    /\ UNCHANGED <<dlVars, svcVars, input, isThinking, model, initPc, sends, now, restarts>>

\* loadModel resolves in initializeModel, which the mount effect (or the alert's
\* Try Again) called with the values of the first render: no active session, so
\* it calls that render's createNewChat.
InitializeModelReturns ==
    /\ Forget
    /\ initPc = "loading"
    /\ model' = TRUE
    /\ initPc' = "done"
    /\ IF Mounted(NoBlob).activeSessionId = NoSession
       THEN CreateNewChat(Mounted(NoBlob).activeSessionId, <<>>,
                          Mounted(NoBlob).chatSessions)
       ELSE UNCHANGED <<chatSessions, activeSessionId, messages, stored, nextId>>
    /\ UNCHANGED <<dlVars, svcVars, input, isThinking, loadCall, sends, now, restarts>>

\* loadModel rejects in initializeModel: the error is shown and an alert opens.
InitializeModelFails ==
    /\ Forget
    /\ initPc = "loading"
    /\ initPc' = "failed"
    /\ messages' = <<ModelErrorMessage>>
    /\ UNCHANGED <<dlVars, svcVars, input, isThinking, chatSessions, activeSessionId, model,
                   stored, loadCall, sends, now, nextId, restarts>>

\* Try Again on the alert: initializeModel of the first render runs again.
RetryInitializeModel ==
    /\ Forget
    /\ initPc = "failed"
    /\ initPc' = "loading"
    /\ messages' = IF Mounted(NoBlob).activeSessionId = NoSession
                   THEN <<LoadingMessage>> ELSE messages
    /\ UNCHANGED <<dlVars, svcVars, input, isThinking, chatSessions, activeSessionId, model,
                   stored, loadCall, sends, now, nextId, restarts>>

\* The app is killed and started again: a fresh hook instance over the same
\* storage. Pending calls of the old instance are gone.
Restart(readFails) ==
    /\ Forget
    /\ restarts < MaxRestarts
    /\ LET m == Mounted(IF readFails THEN ReadError ELSE stored)
       IN /\ input' = m.input
          /\ messages' = m.messages
          /\ isThinking' = m.isThinking
          /\ chatSessions' = m.chatSessions
          /\ activeSessionId' = m.activeSessionId
          /\ model' = m.model
          /\ loadCall' = m.loadCall
          /\ initPc' = m.initPc
          /\ sends' = m.sends
    /\ restarts' = restarts + 1
    /\ UNCHANGED <<dlVars, svcVars, stored, now, nextId>>

\* Time passes.
Tick ==
    /\ UNCHANGED <<deleted, sw, call>>
    /\ now < MaxTime
    /\ now' = now + 1
    /\ UNCHANGED <<dlVars, svcVars, reactVars, stored, loadCall, initPc, sends, nextId, restarts>>

\* The blobs a first start may find: nothing, an empty list, an unparsable string.
InitialBlobs == {NoBlob, CorruptBlob, SetItem(<<>>)}

InitChat ==
    /\ modelFile = NoFile
    /\ dl = DlIdle
    /\ ServicesInit
    /\ \E blob \in InitialBlobs : \E read \in {blob, ReadError} : ChatMounted(blob, read)

\* One run of the app: start-up, turns whose completion resolves (at most
\* MaxPending calls of handleSend pending) and the session handlers, the clock
\* standing still.
NextChat ==
    \/ \E text \in Inputs : SetInput(text)
    \/ HandleSend(MaxPending)
    \/ \E i \in 1..MaxInFlight : TokenizeReturns(i)
    \/ \E i \in 1..MaxInFlight, text \in Responses : CompletionReturns(i, text)
    \/ \E i \in 1..MaxInFlight : SaveReturns(i)
    \/ UserCreateNewChat
    \/ \E id \in 1..MaxIds : SwitchChatSession(id, FALSE)
    \/ \E id \in 1..MaxIds : DeleteSession(id, FALSE)
    \/ AppBackground
    \/ LoadChatSessionsReturns
    \/ InitializeModelReturns

SpecChat == InitChat /\ [][NextChat]_vars

\* Runs of the app without turns: start-up with its failures, the session
\* handlers, restarts, and time passing.
NextRestore ==
    \/ UserCreateNewChat
    \/ \E id \in 1..MaxIds : SwitchChatSession(id, FALSE)
    \/ \E id \in 1..MaxIds : DeleteSession(id, FALSE)
    \/ AppBackground
    \/ LoadChatSessionsReturns
    \/ InitializeModelReturns
    \/ InitializeModelFails
    \/ RetryInitializeModel
    \/ \E readFails \in BOOLEAN : Restart(readFails)
    \/ Tick

SpecRestore == InitChat /\ [][NextRestore]_vars

\* One run of the app without turns, the history of runs of switches kept.
NextSwitch ==
    \/ UserCreateNewChat
    \/ \E id \in 1..MaxIds : SwitchChatSession(id, TRUE)
    \/ AppBackground
    \/ LoadChatSessionsReturns
    \/ InitializeModelReturns
    \/ InitializeModelFails
    \/ RetryInitializeModel

SpecSwitch == InitChat /\ [][NextSwitch]_vars

\* One run of the app without turns, the history of the session handlers' calls
\* kept, and time passing.
NextSessions ==
    \/ UserCreateNewChat
    \/ \E id \in 1..MaxIds : SwitchChatSession(id, TRUE)
    \/ \E id \in 1..MaxIds : DeleteSession(id, TRUE)
    \/ AppBackground
    \/ LoadChatSessionsReturns
    \/ InitializeModelReturns
    \/ InitializeModelFails
    \/ RetryInitializeModel
    \/ Tick

SpecSessions == InitChat /\ [][NextSessions]_vars

\* One run of the app: start-up, turns with every outcome (at most MaxPending
\* calls of handleSend pending) and new chats.
NextTurn ==
    \/ \E text \in Inputs : SetInput(text)
    \/ HandleSend(MaxPending)
    \/ \E i \in 1..MaxInFlight : TokenizeReturns(i)
    \/ \E i \in 1..MaxInFlight, text \in Responses : CompletionReturns(i, text)
    \/ \E i \in 1..MaxInFlight, e \in EngineErrors : CompletionFails(i, e)
    \/ \E i \in 1..MaxInFlight : SaveReturns(i)
    \/ UserCreateNewChat
    \/ LoadChatSessionsReturns
    \/ InitializeModelReturns

SpecTurn == InitChat /\ [][NextTurn]_vars

\* Start-up and turns only, with up to MaxInFlight calls of handleSend pending.
NextRace ==
    \/ \E text \in Inputs : SetInput(text)
    \/ HandleSend(MaxInFlight)
    \/ \E i \in 1..MaxInFlight : TokenizeReturns(i)
    \/ \E i \in 1..MaxInFlight, text \in Responses : CompletionReturns(i, text)
    \/ \E i \in 1..MaxInFlight, e \in EngineErrors : CompletionFails(i, e)
    \/ \E i \in 1..MaxInFlight : SaveReturns(i)
    \/ LoadChatSessionsReturns
    \/ InitializeModelReturns

SpecRace == InitChat /\ [][NextRace]_vars

\* A pending handleSend call goes on: the promise of model.completion settles
\* (resolved or rejected), the promise of saveAllSessions resolves.
TurnProceeds ==
    \E i \in 1..MaxInFlight :
        \/ \E text \in Responses : CompletionReturns(i, text)
        \/ \E e \in EngineErrors : CompletionFails(i, e)
        \/ SaveReturns(i)

\* SpecRace where no pending promise stays unsettled for ever.
SpecTurnsFair == SpecRace /\ WF_vars(TurnProceeds)


(***************************************************************************)
(* validateHuggingFaceUrl                                                  *)
(***************************************************************************)

\* validateHuggingFaceUrl(url) up to the HEAD request.
ValidateHuggingFaceUrl(url) ==
    /\ val.pc = "idle"
    /\ val' = IF ValidateLocally(url) # ""
              THEN [pc |-> "done", url |-> url, requested |-> FALSE, headOk |-> FALSE,
                    result |-> Invalid(ValidateLocally(url))]
              ELSE [pc |-> "head", url |-> url, requested |-> TRUE, headOk |-> FALSE,
                    result |-> Invalid("")]
    /\ UNCHANGED <<dlVars, chatVars, progVars, tokVars, catVars, engVars>>

\* fetch(url, { method: 'HEAD' }) ends.
HeadResponds(head) ==
    /\ val.pc = "head"
    /\ val' = [val EXCEPT !.pc = "done",
                          !.headOk = head.kind = "ok",
                          !.result = ValidateAfterHead(val.url, head)]
    /\ UNCHANGED <<dlVars, chatVars, progVars, tokVars, catVars, engVars>>

\* The caller has the result.
ValidationSettled ==
    /\ val.pc = "done"
    /\ val' = ValIdle
    /\ UNCHANGED <<dlVars, chatVars, progVars, tokVars, catVars, engVars>>

(***************************************************************************)
(* The catalog                                                             *)
(***************************************************************************)

\* checkDownloadedModels()
CheckDownloadedModels ==
    /\ availableModels' = Checked(availableModels, files)
    /\ customModels' = Checked(customModels, files)
    /\ lib' = [op |-> "checkDownloadedModels", id |-> "", found |-> FALSE,
               listing |-> Checked(availableModels, files) \o Checked(customModels, files)]
    /\ UNCHANGED <<dlVars, chatVars, progVars, tokVars, valVars, engVars, files>>

\* addCustomModel(m)
AddCustomModel(m) ==
    /\ customModels' = Upserted(customModels, m)
    /\ lib' = [op |-> "addCustomModel", id |-> m.id, found |-> FALSE, listing |-> <<>>]
    /\ UNCHANGED <<dlVars, chatVars, progVars, tokVars, valVars, engVars, availableModels, files>>

\* The file system after RNFS.unlink of MODELS_DIR/filename, which may fail.
Unlinked(fs, filename, unlinkFails) ==
    IF unlinkFails THEN fs ELSE [fs EXCEPT ![filename] = NoFile]

\* CUSTOM_MODELS and the files after deleteCustomModel(id).
AfterDeleteCustomModel(models, fs, id, unlinkFails) ==
    LET i == FindModel(models, id)
    IN IF i = 0 THEN [models |-> models, files |-> fs]
       ELSE [models |-> Splice(models, i),
             files |-> IF models[i].isDownloaded
                       THEN Unlinked(fs, models[i].filename, unlinkFails)
                       ELSE fs]

\* deleteCustomModel(id)
DeleteCustomModel(id, unlinkFails) ==
    LET out == AfterDeleteCustomModel(customModels, files, id, unlinkFails)
    IN /\ customModels' = out.models
       /\ files' = out.files
       /\ lib' = [op |-> "deleteCustomModel", id |-> id,
                  found |-> FindModel(customModels, id) > 0, listing |-> <<>>]
       /\ UNCHANGED <<dlVars, chatVars, progVars, tokVars, valVars, engVars, availableModels>>

\* Whether deleteModelFile(m) throws: the file is there and unlink fails.
DeleteModelFileThrows(m, fs, unlinkFails) ==
    m.isDownloaded /\ fs[m.filename].exists /\ unlinkFails

\* The files after deleteModelFile(m).
AfterDeleteModelFile(m, fs, unlinkFails) ==
    IF m.isDownloaded /\ fs[m.filename].exists
    THEN Unlinked(fs, m.filename, unlinkFails)
    ELSE fs

\* deleteModelFile(m) for a model of the catalog.
DeleteModelFile(m, unlinkFails) ==
    /\ \E i \in DOMAIN (availableModels \o customModels) :
            (availableModels \o customModels)[i] = m
    /\ files' = AfterDeleteModelFile(m, files, unlinkFails)
    /\ lib' = [op |-> "deleteModelFile", id |-> m.id, found |-> FALSE, listing |-> <<>>]
    /\ UNCHANGED <<dlVars, chatVars, progVars, tokVars, valVars, engVars, availableModels, customModels>>

\* handleDelete(m) of the library screen, for a custom model it shows with a
\* Delete button: deleteModelFile, then deleteCustomModel, then loadModels; an
\* exception ends the flow.
HandleDelete(m, unlinkFails) ==
    /\ \E i \in DOMAIN customModels : customModels[i] = m
    /\ m.isDownloaded
    /\ IF DeleteModelFileThrows(m, files, unlinkFails)
       THEN /\ UNCHANGED <<availableModels, customModels, files>>
            /\ lib' = [op |-> "handleDelete", id |-> m.id, found |-> TRUE, listing |-> <<>>]
       ELSE LET fs == AfterDeleteModelFile(m, files, unlinkFails)
                out == AfterDeleteCustomModel(customModels, fs, m.id, unlinkFails)
            IN /\ files' = out.files
               /\ availableModels' = Checked(availableModels, out.files)
               /\ customModels' = Checked(out.models, out.files)
               /\ lib' = [op |-> "handleDelete", id |-> m.id, found |-> TRUE,
                          listing |-> Checked(availableModels, out.files)
                                        \o Checked(out.models, out.files)]
    /\ UNCHANGED <<dlVars, chatVars, progVars, tokVars, valVars, engVars>>

\* A download (or anything else) leaves a file at MODELS_DIR/filename.
FileWritten(filename, file) ==
    /\ file # NoFile
    /\ files' = [files EXCEPT ![filename] = file]
    /\ lib' = NoOp
    /\ UNCHANGED <<dlVars, chatVars, progVars, tokVars, valVars, engVars, availableModels, customModels>>

(***************************************************************************)
(* useModel                                                                *)
(***************************************************************************)

\* unloadModel() of the latest render: the handle in the model state, if any, is
\* released and the state cleared.
Released(h, handles) == IF h # NoHandle THEN handles \ {h} ELSE handles

\* loadModel(modelPath) of the latest render, up to its first await.
LoadModelStarts ==
    /\ loads < MaxLoads
    /\ live' = Released(handle, live)
    /\ handle' = NoHandle
    /\ loads' = loads + 1
    /\ UNCHANGED <<dlVars, chatVars, progVars, tokVars, valVars, catVars, nextHandle>>

\* initLlama resolves in a pending loadModel: setModel(llama).
LoadModelSucceeds ==
    /\ loads > 0
    /\ nextHandle <= MaxHandles
    /\ live' = live \cup {nextHandle}
    /\ handle' = nextHandle
    /\ nextHandle' = nextHandle + 1
    /\ loads' = loads - 1
    /\ UNCHANGED <<dlVars, chatVars, progVars, tokVars, valVars, catVars>>

\* A pending loadModel throws: no file, an invalid file, the model info timing
\* out, initLlama rejecting.
LoadModelFails ==
    /\ loads > 0
    /\ loads' = loads - 1
    /\ UNCHANGED <<dlVars, chatVars, progVars, tokVars, valVars, catVars, handle, live, nextHandle>>

\* unloadModel() called by the component.
UnloadModel ==
    /\ live' = Released(handle, live)
    /\ handle' = NoHandle
    /\ UNCHANGED <<dlVars, chatVars, progVars, tokVars, valVars, catVars, loads, nextHandle>>

(***************************************************************************)
(* downloadModel: the progress callback                                    *)
(***************************************************************************)

\* downloadModel reaches RNFS.downloadFile: lastUpdateTime = Date.now(),
\* lastBytes = 0; the caller gave an onProgress or not.
TransferStarts(onProgress) ==
    /\ prog.pc = "idle"
    /\ prog' = [NoProgress EXCEPT !.pc = "transferring",
                                  !.onProgress = onProgress,
                                  !.clock = prog.clock,
                                  !.started = prog.clock,
                                  !.lastUpdateTime = prog.clock]
    /\ UNCHANGED <<dlVars, chatVars, valVars, catVars, engVars, tokVars>>

\* What onProgress has been called with after the progress callback ran at
\* time `clock` with res.bytesWritten = `written`.
Emitted(p, clock, written) ==
    IF p.onProgress /\ Throttled(clock - p.lastUpdateTime)
    THEN Append(p.emitted,
                [at |-> clock,
                 bytesWritten |-> written,
                 bytesPerSecond |-> BytesPerSecond(written - p.lastBytes,
                                                  clock - p.lastUpdateTime)])
    ELSE p.emitted

\* The progress callback runs, `ms` after the last reading of the clock and
\* with `bytes` more written.
ProgressReported(ms, bytes) ==
    /\ prog.pc = "transferring"
    /\ prog.events < MaxEvents
    /\ LET clock == prog.clock + ms
           written == prog.bytesWritten + bytes
           emits == prog.onProgress /\ Throttled(clock - prog.lastUpdateTime)
       IN prog' = [prog EXCEPT
                     !.clock = clock,
                     !.bytesWritten = written,
                     !.events = @ + 1,
                     !.emitted = Emitted(prog, clock, written),
                     !.lastUpdateTime = IF emits THEN clock ELSE @,
                     !.lastBytes = IF emits THEN written ELSE @]
    /\ UNCHANGED <<dlVars, chatVars, valVars, catVars, engVars, tokVars>>

\* download.promise settles: no more progress callbacks.
TransferSettles ==
    /\ prog.pc = "transferring"
    /\ prog' = [prog EXCEPT !.pc = "settled"]
    /\ UNCHANGED <<dlVars, chatVars, valVars, catVars, engVars, tokVars>>

(***************************************************************************)
(* useModel: tokenizeText                                                  *)
(***************************************************************************)

\* The texts a run calls tokenizeText with: one never tokenized before, the
\* oldest and the newest entry of the cache, the text of a pending call.
TextsToTokenize ==
    {nextText}
      \cup (IF tokenCache # <<>>
            THEN {tokenCache[1].text, tokenCache[Len(tokenCache)].text}
            ELSE {})
      \cup {tok[j].text : j \in {k \in 1..MaxTokenizing : tok[k].pc = "tokenizing"}}

\* tokenizeText(text) of the latest render, up to its return or to the await of
\* model.tokenize: no model, a cached text, or the tokenizer is called.
TokenizeText(i, which) ==
    /\ tok[i].pc = "idle"
    /\ which \in 1..Cardinality(TextsToTokenize)
    /\ LET text == CHOOSE t \in TextsToTokenize :
                        Cardinality({u \in TextsToTokenize : u < t}) = which - 1
           at == CacheIndex(tokenCache, text)
           loaded == handle # NoHandle
           answer == [pc |-> "returned", text |-> text, loaded |-> loaded,
                    hit |-> at > 0,
                    cached |-> IF at > 0 THEN tokenCache[at].count ELSE 0,
                    called |-> FALSE, result |-> 0]
       IN /\ text = nextText => FreshLeft(nextText)
          /\ nextText' = IF text = nextText THEN nextText + 1 ELSE nextText
          /\ tok' = [tok EXCEPT ![i] =
                        IF ~loaded THEN answer
                        ELSE IF at > 0 THEN [answer EXCEPT !.result = tokenCache[at].count]
                        ELSE [answer EXCEPT !.pc = "tokenizing", !.called = TRUE]]
    /\ UNCHANGED <<dlVars, chatVars, valVars, catVars, engVars, progVars, tokenCache>>

\* model.tokenize resolves: the count is cached, the cache trimmed, the count
\* returned.
TokenizerReturns(i) ==
    /\ tok[i].pc = "tokenizing"
    /\ tokenCache' = CacheTrim(CacheSet(tokenCache, tok[i].text, TokenCount(tok[i].text)))
    /\ tok' = [tok EXCEPT ![i].pc = "returned", ![i].result = TokenCount(tok[i].text)]
    /\ UNCHANGED <<dlVars, chatVars, valVars, catVars, engVars, progVars, nextText>>

\* model.tokenize rejects: the catch block returns 0.
TokenizerThrows(i) ==
    /\ tok[i].pc = "tokenizing"
    /\ tok' = [tok EXCEPT ![i].pc = "returned", ![i].result = 0]
    /\ UNCHANGED <<dlVars, chatVars, valVars, catVars, engVars, progVars, tokenCache, nextText>>

\* The caller has the count.
TokenizeSettled(i) ==
    /\ tok[i].pc = "returned"
    /\ tok' = [tok EXCEPT ![i] = NoTokenize]
    /\ UNCHANGED <<dlVars, chatVars, valVars, catVars, engVars, progVars, tokenCache, nextText>>

(***************************************************************************)
(* The services: initial state and specifications                          *)
(***************************************************************************)

\* The services alone, nothing downloaded.
InitServices ==
    /\ InitDownload
    /\ modelFile = NoFile

NextValidate ==
    \/ val.pc = "idle" /\ \E url \in Urls : ValidateHuggingFaceUrl(url)
    \/ \E head \in HeadOutcomes : HeadResponds(head)
    \/ ValidationSettled

SpecValidate == InitServices /\ [][NextValidate]_vars

NextCatalog ==
    \/ CheckDownloadedModels
    \/ \E m \in NewModels : AddCustomModel(m)
    \/ \E id \in ModelIds, unlinkFails \in BOOLEAN : DeleteCustomModel(id, unlinkFails)
    \/ \E m \in AllModels, unlinkFails \in BOOLEAN : DeleteModelFile(m, unlinkFails)
    \/ \E m \in AllModels, unlinkFails \in BOOLEAN : HandleDelete(m, unlinkFails)
    \/ \E f \in Filenames, file \in CatalogFiles : FileWritten(f, file)

SpecCatalog == InitServices /\ [][NextCatalog]_vars

NextEngine ==
    \/ LoadModelStarts
    \/ LoadModelSucceeds
    \/ LoadModelFails
    \/ UnloadModel

SpecEngine == InitServices /\ [][NextEngine]_vars

\* One transfer of downloadModel and its progress callbacks.
NextProgress ==
    \/ \E onProgress \in BOOLEAN : TransferStarts(onProgress)
    \/ \E ms \in TimeSteps, bytes \in ByteSteps : ProgressReported(ms, bytes)
    \/ TransferSettles

SpecProgress == InitServices /\ [][NextProgress]_vars

\* useModel with a model loaded, the cache empty or holding FilledCache.
InitTokens ==
    /\ modelFile = NoFile
    /\ dl = DlIdle
    /\ ChatMounted(NoBlob, NoBlob)
    /\ val = ValIdle
    /\ availableModels = AvailableModels
    /\ customModels = <<>>
    /\ files = [f \in Filenames |-> NoFile]
    /\ lib = NoOp
    /\ prog = NoProgress
    /\ handle = 1
    /\ live = {1}
    /\ loads = 0
    /\ nextHandle = 2
    /\ tokenCache \in {<<>>, FilledCache}
    /\ nextText = Len(tokenCache) + 1
    /\ tok = [i \in 1..MaxTokenizing |-> NoTokenize]

\* tokenizeText calls, the tokenizer's answers, and the model being unloaded.
NextTokens ==
    \/ \E i \in 1..MaxTokenizing, which \in 1..(3 + MaxTokenizing) : TokenizeText(i, which)
    \/ \E i \in 1..MaxTokenizing : TokenizerReturns(i)
    \/ \E i \in 1..MaxTokenizing : TokenizerThrows(i)
    \/ \E i \in 1..MaxTokenizing : TokenizeSettled(i)
    \/ UnloadModel

SpecTokens == InitTokens /\ [][NextTokens]_vars

(***************************************************************************)
(* Claims about downloadModel                                              *)
(***************************************************************************)

\* C1: whenever downloadModel has returned a path for a descriptor with an
\* expected checksum (by the existing-file fast path or after a download), the
\* file at the path exists and its content has that checksum.
C1_ReturnedFilePassesChecksum ==
    (dl.pc = "returned" /\ dl.expectedMD5 # NoMD5)
        => (modelFile.exists /\ modelFile.digest = dl.expectedMD5)

\* C2: whenever downloadModel has failed because the transfer ended with a
\* non-success status code, no file larger than zero bytes is at the target path.
C2_NoFileLeftAfterFailedStatus ==
    (dl.pc = "failed" /\ dl.error = "status")
        => ~(modelFile.exists /\ modelFile.size > 0)

(***************************************************************************)
(* Claims about useChat                                                    *)
(***************************************************************************)

\* C3: after every createNewChat, what loadChatSessions of a fresh hook
\* instance restores from the persisted blob holds the created session, with the
\* id and the message list it has in memory.
C3_CreatedSessionIsRestored ==
    [][nextId' # nextId =>
          /\ Restorable(stored')
          /\ HasSession(RestoredSessions(stored'), nextId)
          /\ HasSession(chatSessions', nextId)
          /\ FindSession(RestoredSessions(stored'), nextId).messages
                = FindSession(chatSessions', nextId).messages]_vars

\* C3 happens: after a restart, loadChatSessions has restored the session that
\* createNewChat made first, with its seeded message list.
C3_Witness ==
    /\ restarts > 0
    /\ loadCall.pc = "restored"
    /\ HasSession(chatSessions, 1)
    /\ FindSession(chatSessions, 1).messages = <<SystemMessage>>

\* C4: once switchChatSession(A), switchChatSession(B), switchChatSession(A)
\* have run with A active and B in the collection, no message that A's entry
\* held before the first switch is lost or altered: the list it held then is
\* still the beginning of A's list.
C4_SwitchingKeepsMessages ==
    sw.stage = 3 =>
        /\ HasSession(chatSessions, sw.a)
        /\ Len(sw.stored) <= Len(FindSession(chatSessions, sw.a).messages)
        /\ SubSeq(FindSession(chatSessions, sw.a).messages, 1, Len(sw.stored)) = sw.stored

\* C5: the id of an active session that deleteSession removed while other
\* sessions remained is never again among the sessions of the persisted blob,
\* and such a deleteSession leaves a session active.
C5_DeletedIdStaysDeleted ==
    /\ \A id \in deleted : ~(stored.kind = "json" /\ HasSession(Parse(stored.data), id))
    /\ deleted # {} => activeSessionId # NoSession

\* C6: handleSend calls that are pending together make at most one call of the
\* engine's completion: a call made while another is pending does nothing.
C6_OneCompletionForRapidSends ==
    Cardinality({i \in 1..MaxInFlight : sends[i].pc \in {"completing", "saving"}}) <= 1

\* C7: while the input is empty or only whitespace, no step starts a handleSend
\* call (none reaches the tokenizer or the engine); the rejected handleSend
\* itself changes nothing, so messages, collection and blob stay as they are.
C7_BlankInputIsRejected ==
    [][Trim(input) = <<>> =>
          \A i \in 1..MaxInFlight : sends[i].pc = "idle" => sends'[i].pc = "idle"]_vars

\* C7 happens: a whitespace-only input with the model loaded and no turn in
\* flight, so that only the trimmed-input test rejects handleSend.
C7_Witness ==
    /\ input # <<>>
    /\ Trim(input) = <<>>
    /\ model
    /\ ~isThinking
    /\ Pending = {}

\* C8: the active session id is empty or the id of a session of the in-memory
\* collection.
C8_ActiveSessionIsInCollection ==
    activeSessionId = NoSession \/ HasSession(chatSessions, activeSessionId)

\* C9: every createNewChat that the user calls (not the start-up code) while a
\* session is active and shows its conversation leaves a blob that holds the new
\* session with its single system message and the prior session with the message
\* list then in memory.
C9_PriorSessionIsPersisted ==
    [][(/\ nextId' # nextId
        /\ loadCall' = loadCall
        /\ initPc' = initPc
        /\ activeSessionId # NoSession
        /\ messages # <<>>
        /\ messages[1] = SystemMessage) =>
          /\ stored'.kind = "json"
          /\ HasSession(Parse(stored'.data), nextId)
          /\ FindSession(Parse(stored'.data), nextId).messages = <<SystemMessage>>
          /\ HasSession(Parse(stored'.data), activeSessionId)
          /\ FindSession(Parse(stored'.data), activeSessionId).messages = messages]_vars

\* C10: when getItem returned nothing, an empty list, an unparsable string or
\* failed, loadChatSessions returns with exactly one session in the collection:
\* a new one holding the single system message, active and shown.
C10_LoadFallsBackToNewSession ==
    [][(/\ loadCall.pc = "reading"
        /\ loadCall'.pc # "reading"
        /\ (loadCall.data.kind # "json" \/ loadCall.data.data = <<>>)) =>
          /\ chatSessions' = <<Session(nextId, now, <<SystemMessage>>, Undefined)>>
          /\ activeSessionId' = nextId
          /\ messages' = <<SystemMessage>>]_vars

\* C10 happens: after a restart, loadChatSessions has fallen back to a new
\* session, which is the only one, active and shown.
C10_Witness ==
    /\ restarts > 0
    /\ loadCall.pc = "created"
    /\ Len(chatSessions) = 1
    /\ activeSessionId = chatSessions[1].id
    /\ messages = <<SystemMessage>>

\* C11: when a turn of handleSend ends (with a response, an empty response or
\* an engine error), the blob written at once holds the session the turn was
\* submitted in, with the message list the turn produced.
C11_EveryOutcomeIsSaved ==
    [][\A i \in 1..MaxInFlight :
          (sends[i].pc = "completing" /\ sends'[i].pc = "saving") =>
              /\ stored'.kind = "json"
              /\ HasSession(Parse(stored'.data), sends[i].activeSessionId)
              /\ FindSession(Parse(stored'.data), sends[i].activeSessionId).messages
                    \in {FinalMessages(sends[i], text) : text \in Responses}
                        \cup {ErrorMessages(sends[i], e) : e \in EngineErrors}]_vars

\* C12: when model.completion fails, the session's message list after the turn
\* is the list before the turn, then the submitted user message, then one error
\* message embedding the failure description.
C12_FailedTurnKeepsUserMessage ==
    [][\A i \in 1..MaxInFlight, e \in EngineErrors :
          (/\ sends[i].pc = "completing"
           /\ sends'[i].pc = "saving"
           /\ messages' # <<>>
           /\ messages'[Len(messages')] = ErrorMessage(e)) =>
              messages' = sends[i].messages
                            \o <<Message("user", sends[i].userMessage), ErrorMessage(e)>>]_vars

\* C20: once loadChatSessions has restored persisted sessions, the completion
\* of initializeModel changes neither the in-memory collection nor the blob.
C20_ModelLoadKeepsRestoredSessions ==
    [][(loadCall.pc = "restored" /\ initPc = "loading" /\ initPc' = "done") =>
          (chatSessions' = chatSessions /\ stored' = stored)]_vars

\* C13: a finished download whose file does not exceed the minimum-size
\* threshold is deleted and fails: after a failure for size or checksum no file
\* is at the path, and downloadModel has never returned with a file at the path
\* that does not exceed the threshold.
C13_RejectedDownloadIsDeleted ==
    /\ (dl.pc = "failed" /\ dl.error \in {"tooSmall", "md5"}) => ~modelFile.exists
    /\ dl.pc = "returned" => (modelFile.exists /\ modelFile.size > MinModelSize)

\* C14: a downloadModel call that finds a file above the minimum-size threshold,
\* with no checksum expected or with the expected checksum, returns the path at
\* once: it starts no transfer and leaves the file as it is.
C14_FastPathIsIdempotent ==
    [][(/\ dl.pc = "idle"
        /\ dl'.pc # "idle"
        /\ modelFile.exists
        /\ modelFile.size > MinModelSize
        /\ (dl'.expectedMD5 = NoMD5 \/ dl'.expectedMD5 = modelFile.digest)) =>
          (dl'.pc = "returned" /\ modelFile' = modelFile)]_vars

(***************************************************************************)
(* Claims about the services                                               *)
(***************************************************************************)

\* C15: validateHuggingFaceUrl returns isValid = true only for a URL that names
\* the supported host, whose last path segment (the query string removed) ends
\* with a supported extension and whose HEAD probe succeeded, and then reports
\* that segment as the filename; otherwise it returns isValid = false with an
\* error, an empty filename and size 0; and a URL whose last path segment has no
\* supported extension is rejected without a request.
C15_OnlySupportedFilesAreValid ==
    val.pc = "done" =>
        LET segment == SplitPop(SplitFirst(val.url, "?"), "/")
        IN /\ val.result.isValid =>
                /\ Includes(val.url, HuggingFaceHost)
                /\ IsSupported(segment)
                /\ val.headOk
                /\ val.result.filename = segment
           /\ ~val.result.isValid =>
                /\ val.result.filename = <<>>
                /\ val.result.size = 0
                /\ val.result.error # ""
           /\ ~IsSupported(segment) => ~val.requested

\* C16: in the listing checkDownloadedModels returns, a model is flagged as
\* downloaded exactly when a file above the minimum-size threshold is at its
\* path at that moment.
C16_DownloadedFlagIsRecomputed ==
    lib.op = "checkDownloadedModels" =>
        \A i \in DOMAIN lib.listing :
            lib.listing[i].isDownloaded
                <=> (/\ files[lib.listing[i].filename].exists
                     /\ files[lib.listing[i].filename].size > MinModelSize)

\* C17: after deleteCustomModel(id) for a model of the catalog, and after the
\* library screen's delete flow for it, the catalog has no entry with the id,
\* whether or not the file could be deleted.
C17_EntryIsRemovedWhateverUnlinkDoes ==
    (lib.op \in {"deleteCustomModel", "handleDelete"} /\ lib.found)
        => FindModel(customModels, lib.id) = 0

\* C18: at most one engine handle is created and not released.
C18_OneEngineHandle ==
    Cardinality(live) <= 1

\* C19: no two entries of CUSTOM_MODELS have the same id, and no two models of
\* the listing checkDownloadedModels returns have the same id.
C19_IdsAreUnique ==
    /\ \A i, j \in DOMAIN customModels :
            customModels[i].id = customModels[j].id => i = j
    /\ lib.op = "checkDownloadedModels" =>
            \A i, j \in DOMAIN lib.listing :
                lib.listing[i].id = lib.listing[j].id => i = j

(***************************************************************************)
(* Claims about the session handlers                                       *)
(***************************************************************************)

\* C21: deleteSession of the only session of the collection leaves, in memory
\* and in the blob, exactly one session: a new one (not the deleted id), active
\* and holding the single system message.
C21_DeletingTheOnlySessionStartsAfresh ==
    [][\A id \in 1..MaxIds :
          (/\ call'.op = "deleteSession"
           /\ call'.id = id
           /\ Len(chatSessions) = 1
           /\ chatSessions[1].id = id) =>
              /\ Len(chatSessions') = 1
              /\ chatSessions'[1].id # id
              /\ chatSessions'[1].messages = <<SystemMessage>>
              /\ activeSessionId' = chatSessions'[1].id
              /\ stored'.kind = "json"
              /\ Len(Parse(stored'.data)) = 1
              /\ Parse(stored'.data)[1].id = chatSessions'[1].id
              /\ Parse(stored'.data)[1].messages = <<SystemMessage>>]_vars

\* C22: when deleteSession removes the active session and other sessions
\* remain, the session active afterwards is a remaining session and none of the
\* remaining sessions has a greater updatedAt.
C22_MostRecentSessionBecomesActive ==
    [][\A id \in 1..MaxIds :
          (/\ call'.op = "deleteSession"
           /\ call'.id = id
           /\ id = activeSessionId
           /\ HasSession(chatSessions, id)
           /\ FilterOut(chatSessions, id) # <<>>) =>
              LET remaining == FilterOut(chatSessions, id)
              IN /\ HasSession(remaining, activeSessionId')
                 /\ \A j \in DOMAIN remaining :
                        remaining[j].updatedAt
                            <= FindSession(remaining, activeSessionId').updatedAt]_vars

\* C23: switchChatSession with an id that no session of the collection has
\* leaves the active session id and the displayed messages as they were.
C23_SwitchToUnknownIdChangesNothing ==
    [][\A id \in 1..MaxIds :
          (/\ call'.op = "switchChatSession"
           /\ call'.id = id
           /\ ~HasSession(chatSessions, id)) =>
              /\ activeSessionId' = activeSessionId
              /\ messages' = messages]_vars

\* C23 happens: switchChatSession was called with an id that is not in the
\* collection while a session of the collection is active and shown.
C23_Witness ==
    /\ call.op = "switchChatSession"
    /\ ~HasSession(chatSessions, call.id)
    /\ HasSession(chatSessions, activeSessionId)
    /\ messages = FindSession(chatSessions, activeSessionId).messages
    /\ messages # <<>>

\* The sessions of the collection that a blob does not hold with the message
\* list they have in the collection.
NotKept(sessions, blob) ==
    {id \in 1..MaxIds :
        /\ HasSession(sessions, id)
        /\ ~(/\ blob.kind = "json"
             /\ HasSession(Parse(blob.data), id)
             /\ FindSession(Parse(blob.data), id).messages
                    = FindSession(sessions, id).messages)}

\* C24: every write of the blob by a handler other than the start-up code (a
\* save, a new chat, a deletion, the end of a turn) holds each session id at
\* most once and keeps every session of the collection in memory, with the
\* message list it has there, except at most the one session the write is about.
C24_WritesKeepOtherSessions ==
    [][(stored' # stored /\ loadCall' = loadCall /\ initPc' = initPc) =>
          /\ stored'.kind = "json"
          /\ \A i, j \in DOMAIN stored'.data :
                stored'.data[i].id = stored'.data[j].id => i = j
          /\ Cardinality(NotKept(chatSessions, stored')) <= 1]_vars

\* C25: when a turn ends while a session other than the one it was submitted in
\* is active, the active session is in the collection with the message list it
\* had, the blob holds it with that list if it holds it at all, and the
\* displayed messages are those of the active session.
C25_LateTurnStaysInItsSession ==
    [][\A i \in 1..MaxInFlight :
          (/\ sends[i].pc = "completing"
           /\ sends'[i].pc = "saving"
           /\ activeSessionId # sends[i].activeSessionId
           /\ HasSession(chatSessions, activeSessionId)) =>
              LET before == FindSession(chatSessions, activeSessionId).messages
              IN /\ activeSessionId' = activeSessionId
                 /\ HasSession(chatSessions', activeSessionId)
                 /\ FindSession(chatSessions', activeSessionId).messages = before
                 /\ HasSession(Parse(stored'.data), activeSessionId) =>
                        FindSession(Parse(stored'.data), activeSessionId).messages = before
                 /\ messages' = before]_vars

\* C26: whenever the in-flight flag isThinking is set, it is cleared later, the
\* completion returning text, returning nothing or failing.
C26_FlagIsEventuallyCleared ==
    isThinking ~> ~isThinking

\* C26 happens: a turn whose completion failed has ended, the flag is cleared
\* and the next handleSend would be accepted.
C26_Witness ==
    /\ Pending = {}
    /\ ~isThinking
    /\ messages # <<>>
    /\ messages[Len(messages)] \in {ErrorMessage(e) : e \in EngineErrors}
    /\ CanSend(input, isThinking, model)

(***************************************************************************)
(* Claims about the model service, continued                               *)
(***************************************************************************)

\* C27: whenever downloadModel has returned a path, checkDownloadedModels run
\* over the file then at the path flags the model as downloaded.
C27_ReturnedDownloadIsListed ==
    dl.pc = "returned" =>
        \A i \in DOMAIN availableModels :
            Checked(availableModels, [f \in Filenames |-> modelFile])[i].isDownloaded

(***************************************************************************)
(* Claims about the turns                                                  *)
(***************************************************************************)

\* Whether list a is the beginning of list b.
IsPrefix(a, b) == Len(a) <= Len(b) /\ SubSeq(b, 1, Len(a)) = a

\* C28: a session's message list only grows at its end: in every step that
\* leaves the active session active the displayed list before is the beginning
\* of the displayed list after, and for every session that is in the collection
\* before and after the step its list before is the beginning of its list after.
C28_MessageListsAreAppendOnly ==
    [][/\ (activeSessionId # NoSession /\ activeSessionId' = activeSessionId)
            => IsPrefix(messages, messages')
       /\ \A id \in 1..MaxIds :
            (HasSession(chatSessions, id) /\ HasSession(chatSessions', id))
                => IsPrefix(FindSession(chatSessions, id).messages,
                            FindSession(chatSessions', id).messages)]_vars

(***************************************************************************)
(* Claims about the progress callback and the token cache                  *)
(***************************************************************************)

\* C29: during one download, every onProgress call comes more than 0.5 s after
\* the one before it (the first one more than 0.5 s after the transfer started),
\* and the throughput it reports is the bytes written since the call before it
\* (since the start for the first) divided by the time since then.
C29_ProgressIsThrottled ==
    \A k \in DOMAIN prog.emitted :
        LET e == prog.emitted[k]
            prevAt == IF k = 1 THEN prog.started ELSE prog.emitted[k - 1].at
            prevBytes == IF k = 1 THEN 0 ELSE prog.emitted[k - 1].bytesWritten
        IN /\ e.at - prevAt > 500
           /\ e.bytesPerSecond.ms > 0
           /\ e.bytesPerSecond.bytes * (e.at - prevAt)
                = (e.bytesWritten - prevBytes) * 1000 * e.bytesPerSecond.ms

\* C29 happens: onProgress was called twice, with bytes written in between and
\* a progress callback that was not passed on.
C29_Witness ==
    /\ Len(prog.emitted) = 2
    /\ prog.events > 2
    /\ prog.emitted[2].bytesWritten > prog.emitted[1].bytesWritten
    /\ prog.emitted[1].bytesWritten > 0

\* The cache holds at most 1000 entries after the step, and an entry leaves it
\* only from the front of the insertion order, the others keeping their order.
CacheStaysBounded ==
    /\ Len(tokenCache') <= TokenCacheLimit
    /\ tokenCache' # tokenCache =>
          \/ /\ Len(tokenCache') >= Len(tokenCache)
             /\ \A k \in DOMAIN tokenCache : tokenCache'[k].text = tokenCache[k].text
          \/ /\ Len(tokenCache') = Len(tokenCache)
             /\ \A k \in 2..Len(tokenCache) : tokenCache'[k - 1].text = tokenCache[k].text

====
